---- MODULE Spec2Model ----
(***************************************************************************)
(* Model of mdgeom: distances.py (minimum-image distances between two     *)
(* atom groups) and info.py (metadata extraction and summary table).      *)
(*                                                                         *)
(* Numbers.  Lengths (Angstrom) and angles (degree) are fixed-point       *)
(* integers with Fixed units per Angstrom/degree, so that the tolerance   *)
(* of numpy.allclose is exact integer arithmetic.  A Euclidean length is  *)
(* represented by its square (the map x |-> x^2 is one-to-one and order   *)
(* preserving on lengths), written as a three-digit numeral of base Base  *)
(* because the squares exceed the integer range of the model checker.     *)
(*                                                                         *)
(* Python's None is the empty tuple for `dimensions`; the `labels`        *)
(* argument is a record that tells None from the empty list; a None       *)
(* entry inside a labels list is the constant NoneLabel.                  *)
(*                                                                         *)
(* The unit cell handed to the MDAnalysis library (a.dimensions) is       *)
(* orthorhombic in this model; the library's reduction for triclinic      *)
(* cells is not modelled.  b.dimensions may deviate in any of the six     *)
(* scalars.                                                               *)
(***************************************************************************)
EXTENDS Integers, Sequences, FiniteSets, TLC

VARIABLES op, a, b, universes, labels, raised, result, calls, stdout

vars == <<op, a, b, universes, labels, raised, result, calls, stdout>>

(* ------------------------------ bounds -------------------------------- *)
MaxAtoms == 2
MaxUniverses == 2

(* --------------------------- number encoding -------------------------- *)
Fixed == 10 ^ 4
Base == 10 ^ 3
RtolInv == 100000
AtolInv == 100000000

None == <<>>
NoError == "ok"
NoneLabel == "<None>"

Abs(x) == IF x < 0 THEN -x ELSE x

\* C round(): n/d rounded to the nearest integer, halves away from zero (d > 0)
Round(n, d) ==
    IF n >= 0 THEN (2 * n + d) \div (2 * d) ELSE -((2 * (-n) + d) \div (2 * d))

\* |v| of a 3-vector, as the base-Base numeral <<hi, mid, lo>> of |v|^2
Norm(v) ==
    LET h(j) == Abs(v[j]) \div Base
        l(j) == Abs(v[j]) % Base
        H0 == h(1) * h(1) + h(2) * h(2) + h(3) * h(3)
        M0 == 2 * (h(1) * l(1) + h(2) * l(2) + h(3) * l(3))
        L0 == l(1) * l(1) + l(2) * l(2) + l(3) * l(3)
        M1 == M0 + (L0 \div Base)
    IN  <<H0 + (M1 \div Base), M1 % Base, L0 % Base>>

NormLeq(x, y) ==
    \/ x[1] < y[1]
    \/ x[1] = y[1] /\ x[2] < y[2]
    \/ x[1] = y[1] /\ x[2] = y[2] /\ x[3] <= y[3]

(* ------------------------------ inputs -------------------------------- *)
Right == 90 * Fixed

\* an orthorhombic cell of about 10 x 12 x 20 Angstrom
Box0 == <<99989, 120000, 200000, Right, Right, Right>>

Variant(box, i, x) == [box EXCEPT ![i] = x]

\* cells of group a: orthorhombic
ABoxes == {Box0, Variant(Box0, 1, 99990)}

\* cells of group b: every scalar may deviate, within or beyond tolerance
BBoxes == ABoxes \cup
          { Variant(Box0, 1, 99992), Variant(Box0, 2, 120002),
            Variant(Box0, 3, 200002), Variant(Box0, 3, 200003),
            Variant(Box0, 4, Right + 5), Variant(Box0, 4, 60 * Fixed),
            Variant(Box0, 5, Right - 10),
            Variant(Box0, 6, Right + 9), Variant(Box0, 6, Right + 20) }

Points == { <<0, 0, 0>>, <<60000, 60000, 140000>>, <<250000, -70000, 20000>> }

GroupsOf(boxes) ==
    UNION { { [n_atoms |-> n, positions |-> p, dimensions |-> d] :
                p \in [1..n -> Points], d \in boxes \cup {None} } :
            n \in 0..MaxAtoms }

EmptyGroup == [n_atoms |-> 0, positions |-> <<>>, dimensions |-> None]

(* --------------------------- distances.py ----------------------------- *)
SizeMismatch == "AtomGroups a and b contain different number of atoms"
MissingBox == "One AtomGroup does not have unit cell information"
BoxMismatch == "Unit cell dimensions differ between groups."

\* numpy.allclose(x, y): |x - y| <= atol + rtol * |y| for every element,
\* with the defaults rtol = 1/RtolInv and atol = 1/AtolInv
allclose(x, y) ==
    \A i \in 1..6 :
        Abs(x[i] - y[i]) <=
            ((Fixed \div (AtolInv \div RtolInv)) + Abs(y[i])) \div RtolInv

check_groups_box_of_a_only(ga, gb) ==
    IF ga.n_atoms # gb.n_atoms THEN SizeMismatch
    ELSE IF ga.dimensions = None THEN NoError
    ELSE IF gb.dimensions = None THEN MissingBox
    ELSE IF ~allclose(ga.dimensions, gb.dimensions) THEN BoxMismatch
    ELSE NoError

check_groups_exact_boxes(ga, gb) ==
    IF ga.n_atoms # gb.n_atoms THEN SizeMismatch
    ELSE IF ga.dimensions = None /\ gb.dimensions = None THEN NoError
    ELSE IF (ga.dimensions = None) # (gb.dimensions = None) THEN MissingBox
    ELSE IF ga.dimensions # gb.dimensions THEN BoxMismatch
    ELSE NoError

check_groups(ga, gb) ==
    IF ga.n_atoms # gb.n_atoms THEN SizeMismatch
    ELSE IF ga.dimensions = None /\ gb.dimensions = None THEN NoError
    ELSE IF (ga.dimensions = None) # (gb.dimensions = None) THEN MissingBox
    ELSE IF ~allclose(ga.dimensions, gb.dimensions) THEN BoxMismatch
    ELSE NoError

\* a.positions - b.positions
Subtract(pa, pb) ==
    [i \in 1..Len(pa) |->
        <<pa[i][1] - pb[i][1], pa[i][2] - pb[i][2], pa[i][3] - pb[i][3]>>]

\* MDAnalysis.lib.distances.minimize_vectors, orthorhombic cell
minimize_vectors(vectors, box) ==
    [i \in 1..Len(vectors) |->
        [j \in 1..3 |-> vectors[i][j] - box[j] * Round(vectors[i][j], box[j])]]

\* MDAnalysis.lib.distances.calc_bonds, no cell or orthorhombic cell
calc_bonds(pa, pb, box) ==
    [i \in 1..Len(pa) |->
        LET dx == <<pa[i][1] - pb[i][1], pa[i][2] - pb[i][2],
                    pa[i][3] - pb[i][3]>>
        IN  IF box = None THEN Norm(dx)
            ELSE Norm([j \in 1..3 |-> dx[j] - box[j] * Round(dx[j], box[j])])]

Failure(err, log) == [raised |-> err, value |-> <<>>, calls |-> log]

CallOf(fn, box) == [fn |-> fn, box |-> box]

minimage_distance_compute_first(ga, gb) ==
    LET err == check_groups(ga, gb)
        log == <<CallOf("calc_bonds", ga.dimensions)>>
    IN  IF err # NoError THEN Failure(err, log)
        ELSE [raised |-> NoError,
              value |-> calc_bonds(ga.positions, gb.positions, ga.dimensions),
              calls |-> log]

minimage_distance_no_box(ga, gb) ==
    LET err == check_groups(ga, gb)
    IN  IF err # NoError THEN Failure(err, <<>>)
        ELSE [raised |-> NoError,
              value |-> calc_bonds(ga.positions, gb.positions, None),
              calls |-> <<CallOf("calc_bonds", None)>>]

minimage_distance(ga, gb) ==
    LET err == check_groups(ga, gb)
    IN  IF err # NoError THEN Failure(err, <<>>)
        ELSE [raised |-> NoError,
              value |-> calc_bonds(ga.positions, gb.positions, ga.dimensions),
              calls |-> <<CallOf("calc_bonds", ga.dimensions)>>]

minimage_difference_vector_always_minimize(ga, gb) ==
    LET err == check_groups(ga, gb)
        diff_vec == Subtract(ga.positions, gb.positions)
    IN  IF err # NoError THEN Failure(err, <<>>)
        ELSE [raised |-> NoError,
              value |-> IF ga.dimensions # None
                        THEN minimize_vectors(diff_vec, ga.dimensions)
                        ELSE minimize_vectors(diff_vec, Box0),
              calls |-> <<CallOf("subtract", None),
                          CallOf("minimize_vectors",
                                 IF ga.dimensions # None
                                 THEN ga.dimensions ELSE Box0)>>]

minimage_difference_vector_raw(ga, gb) ==
    LET err == check_groups(ga, gb)
        diff_vec == Subtract(ga.positions, gb.positions)
    IN  IF err # NoError THEN Failure(err, <<>>)
        ELSE [raised |-> NoError, value |-> diff_vec,
              calls |-> <<CallOf("subtract", None)>>]

minimage_difference_vector(ga, gb) ==
    LET err == check_groups(ga, gb)
        diff_vec == Subtract(ga.positions, gb.positions)
    IN  IF err # NoError THEN Failure(err, <<>>)
        ELSE IF ga.dimensions # None
        THEN [raised |-> NoError,
              value |-> minimize_vectors(diff_vec, ga.dimensions),
              calls |-> <<CallOf("subtract", None),
                          CallOf("minimize_vectors", ga.dimensions)>>]
        ELSE [raised |-> NoError, value |-> diff_vec,
              calls |-> <<CallOf("subtract", None)>>]

(* ------------------------------- info.py ------------------------------ *)
data_column_keys ==
    <<"n_atoms", "Lx", "Ly", "Lz", "alpha", "beta", "gamma",
      "n_frames", "totaltime", "dt">>

data_column_names ==
    <<"n_atoms", "Lx/A", "Ly/A", "Lz/A", "alpha", "beta", "gamma",
      "n_frames", "totaltime/ns", "dt/ps">>

\* universes: a periodic trajectory, a trajectory without a cell, one frame
Universes ==
    { [n_atoms |-> 47681,
       dimensions |-> <<800170, 800170, 800170, 60 * Fixed, 60 * Fixed, Right>>,
       n_frames |-> 10, totaltime |-> 900, dt |-> 100],
      [n_atoms |-> 3341, dimensions |-> None,
       n_frames |-> 98, totaltime |-> 97, dt |-> 1],
      [n_atoms |-> 47681,
       dimensions |-> <<800170, 800170, 800170, 60 * Fixed, 60 * Fixed, Right>>,
       n_frames |-> 1, totaltime |-> 0, dt |-> 1] }

Labels == {"Adk GROMACS", "ADK DIMS", NoneLabel}

UniverseLists == UNION { [1..n -> Universes] : n \in 0..MaxUniverses }

\* labels=None (argument left out) or a list, also of another length
NoLabels == [isNone |-> TRUE, items |-> <<>>]
LabelArgs ==
    {NoLabels} \cup
    { [isNone |-> FALSE, items |-> l] :
        l \in UNION { [1..n -> Labels] : n \in 0..(MaxUniverses + 1) } }

extract_keep_box(u) ==
    LET box == IF u.dimensions = None THEN <<1, 1, 1, Right, Right, Right>>
               ELSE u.dimensions
    IN  [n_atoms |-> u.n_atoms,
         Lx |-> box[1], Ly |-> box[2], Lz |-> box[3],
         alpha |-> box[4], beta |-> box[5], gamma |-> box[6],
         n_frames |-> u.n_frames, totaltime |-> u.totaltime, dt |-> u.dt]

extract(u) ==
    LET box == IF u.dimensions = None THEN <<0, 0, 0, 0, 0, 0>>
               ELSE u.dimensions
    IN  [n_atoms |-> u.n_atoms,
         Lx |-> box[1], Ly |-> box[2], Lz |-> box[3],
         alpha |-> box[4], beta |-> box[5], gamma |-> box[6],
         n_frames |-> u.n_frames, totaltime |-> u.totaltime, dt |-> u.dt]

\* x / y of Python, kept as the fraction
Divide(x, y) == [num |-> x, den |-> y]

\* the row summary builds for universe u and its label (lines 68-72)
Row_without_conversion(u, label) ==
    LET data == [extract(u) EXCEPT !.totaltime = Divide(@, 1)]
        row == [k \in 1..Len(data_column_keys) |-> data[data_column_keys[k]]]
    IN  IF label # NoneLabel THEN <<label>> \o row ELSE row

Row(u, label) ==
    LET data == [extract(u) EXCEPT !.totaltime = Divide(@, 1000)]
        row == [k \in 1..Len(data_column_keys) |-> data[data_column_keys[k]]]
    IN  IF label # NoneLabel THEN <<label>> \o row ELSE row

TypeErrorLen == "object of type 'NoneType' has no len()"
LabelCount == "labels must contain one label per universe"
RowLength == "Row has incorrect number of values"

ExtractCalls(us, n) == [i \in 1..n |-> CallOf("extract", us[i].dimensions)]

\* the table is filled row by row and printed; prettytable's add_row raises
\* ValueError for a row that has not one value per field name
FillAndPrint(us, items, column_names) ==
    LET rows == [i \in 1..Len(us) |-> Row(us[i], items[i])]
        bad == {i \in 1..Len(us) : Len(rows[i]) # Len(column_names)}
        first == CHOOSE i \in bad : \A k \in bad : i <= k
    IN  IF bad # {}
        THEN [raised |-> RowLength, calls |-> ExtractCalls(us, first),
              stdout |-> <<>>]
        ELSE [raised |-> NoError, calls |-> ExtractCalls(us, Len(us)),
              stdout |-> <<[field_names |-> column_names, rows |-> rows]>>]

ColumnsAndRows(us, ls) ==
    IF ls.isNone
    THEN FillAndPrint(us, [i \in 1..Len(us) |-> NoneLabel], data_column_names)
    ELSE FillAndPrint(us, ls.items, <<"simulation">> \o data_column_names)

summary_extract_first(us, ls) ==
    IF ls.isNone THEN [raised |-> TypeErrorLen, calls |-> <<>>, stdout |-> <<>>]
    ELSE IF Len(ls.items) # Len(us)
    THEN [raised |-> LabelCount, calls |-> ExtractCalls(us, Len(us)),
          stdout |-> <<>>]
    ELSE ColumnsAndRows(us, ls)

\* len(labels) is taken first: it raises TypeError for labels=None
summary(us, ls) ==
    IF ls.isNone THEN [raised |-> TypeErrorLen, calls |-> <<>>, stdout |-> <<>>]
    ELSE IF Len(ls.items) # Len(us)
    THEN [raised |-> LabelCount, calls |-> <<>>, stdout |-> <<>>]
    ELSE ColumnsAndRows(us, ls)

(* ------------------------------ behaviour ----------------------------- *)
Init ==
    /\ op = "idle"
    /\ a = EmptyGroup
    /\ b = EmptyGroup
    /\ universes = <<>>
    /\ labels = NoLabels
    /\ raised = NoError
    /\ result = <<>>
    /\ calls = <<>>
    /\ stdout = <<>>

MinimageDistance ==
    \E ga \in GroupsOf(ABoxes), gb \in GroupsOf(BBoxes) :
        LET r == minimage_distance(ga, gb)
        IN  /\ op = "idle"
            /\ op' = "minimage_distance"
            /\ a' = ga
            /\ b' = gb
            /\ raised' = r.raised
            /\ result' = r.value
            /\ calls' = r.calls
            /\ universes' = <<>>
            /\ labels' = NoLabels
            /\ stdout' = <<>>

MinimageDifferenceVector ==
    \E ga \in GroupsOf(ABoxes), gb \in GroupsOf(BBoxes) :
        LET r == minimage_difference_vector(ga, gb)
        IN  /\ op = "idle"
            /\ op' = "minimage_difference_vector"
            /\ a' = ga
            /\ b' = gb
            /\ raised' = r.raised
            /\ result' = r.value
            /\ calls' = r.calls
            /\ universes' = <<>>
            /\ labels' = NoLabels
            /\ stdout' = <<>>

Extract ==
    \E u \in Universes :
        /\ op = "idle"
        /\ op' = "extract"
        /\ universes' = <<u>>
        /\ raised' = NoError
        /\ result' = extract(u)
        /\ calls' = <<>>
        /\ a' = EmptyGroup
        /\ b' = EmptyGroup
        /\ labels' = NoLabels
        /\ stdout' = <<>>

Summary ==
    \E us \in UniverseLists, ls \in LabelArgs :
        LET r == summary(us, ls)
        IN  /\ op = "idle"
            /\ op' = "summary"
            /\ universes' = us
            /\ labels' = ls
            /\ raised' = r.raised
            /\ result' = <<>>
            /\ calls' = r.calls
            /\ stdout' = r.stdout
            /\ a' = EmptyGroup
            /\ b' = EmptyGroup

\* the call is over: nothing of it is kept (the functions are stateless)
Return ==
    /\ op # "idle"
    /\ op' = "idle"
    /\ a' = EmptyGroup
    /\ b' = EmptyGroup
    /\ universes' = <<>>
    /\ labels' = NoLabels
    /\ raised' = NoError
    /\ result' = <<>>
    /\ calls' = <<>>
    /\ stdout' = <<>>

Next ==
    \/ MinimageDistance
    \/ MinimageDifferenceVector
    \/ Extract
    \/ Summary
    \/ Return

Spec == Init /\ [][Next]_vars

(* ------------------------------ properties ---------------------------- *)
DistOps == {"minimage_distance", "minimage_difference_vector"}

SameSize == a.n_atoms = b.n_atoms

RawDifference(i) ==
    <<a.positions[i][1] - b.positions[i][1],
      a.positions[i][2] - b.positions[i][2],
      a.positions[i][3] - b.positions[i][3]>>

\* the largest |x - y| that atol + rtol * |y| admits, in fixed-point units
Tolerance(y) == ((Fixed \div 1000) + Abs(y)) \div 100000

WithinTolerance ==
    \A i \in 1..6 :
        Abs(a.dimensions[i] - b.dimensions[i]) <= Tolerance(b.dimensions[i])

LibraryCalls == {k \in 1..Len(calls) : calls[k].fn \in {"calc_bonds", "minimize_vectors"}}

\* C1: groups of different size make both operations raise the size-mismatch
\* error, and no distance or difference computation was made before it.
Thm_C1 ==
    (op \in DistOps /\ a.n_atoms # b.n_atoms)
        => (raised = SizeMismatch /\ calls = <<>> /\ result = <<>>)

Wit_C1 ==
    /\ op = "minimage_distance"
    /\ a.n_atoms # b.n_atoms
    /\ a.dimensions # None
    /\ raised = SizeMismatch

\* C2 as stated: whenever exactly one group lacks the unit cell, both
\* operations raise the box-presence error, whichever group lacks it.
Orig_C2 ==
    (op \in DistOps /\ (a.dimensions = None) # (b.dimensions = None))
        => raised = MissingBox

\* C2 amended: for groups of equal size of which exactly one lacks the unit
\* cell, both operations raise the box-presence error, whichever lacks it.
Thm_C2 ==
    (op \in DistOps /\ SameSize /\ (a.dimensions = None) # (b.dimensions = None))
        => (raised = MissingBox /\ calls = <<>>)

Wit_C2 ==
    /\ op = "minimage_difference_vector"
    /\ SameSize
    /\ a.n_atoms > 0
    /\ a.dimensions = None
    /\ b.dimensions # None
    /\ raised = MissingBox

\* C3: equal size, both with a cell: a scalar beyond atol + rtol*|x_b| makes
\* both operations raise the cell-mismatch error; with all six scalars within
\* it nothing is raised and the library is called with a's cell.
Thm_C3 ==
    (op \in DistOps /\ SameSize /\ a.dimensions # None /\ b.dimensions # None)
        => IF WithinTolerance
           THEN /\ raised = NoError
                /\ LibraryCalls # {}
                /\ \A k \in LibraryCalls : calls[k].box = a.dimensions
           ELSE raised = BoxMismatch

Wit_C3 ==
    /\ op = "minimage_distance"
    /\ SameSize
    /\ a.n_atoms > 0
    /\ a.dimensions # None
    /\ b.dimensions # None
    /\ a.dimensions # b.dimensions
    /\ raised = NoError

\* C4: equal size and no cell on either group: the difference vector is the
\* element-wise a.positions - b.positions, minimize_vectors is not called and
\* nothing is raised.
Thm_C4 ==
    (op = "minimage_difference_vector" /\ SameSize
        /\ a.dimensions = None /\ b.dimensions = None)
        => /\ raised = NoError
           /\ Len(result) = a.n_atoms
           /\ \A i \in 1..a.n_atoms : result[i] = RawDifference(i)
           /\ \A k \in 1..Len(calls) : calls[k].fn # "minimize_vectors"

Wit_C4 ==
    /\ op = "minimage_difference_vector"
    /\ a.dimensions = None
    /\ b.dimensions = None
    /\ raised = NoError
    /\ \E i \in 1..a.n_atoms :
        result[i] = RawDifference(i) /\ Abs(result[i][1]) > Box0[1]

Images(d, box) ==
    { <<d[1] + s[1] * box[1], d[2] + s[2] * box[2], d[3] + s[3] * box[3]>> :
        s \in {-1, 0, 1} \X {-1, 0, 1} \X {-1, 0, 1} }

TenKeys ==
    {"n_atoms", "Lx", "Ly", "Lz", "alpha", "beta", "gamma",
     "n_frames", "totaltime", "dt"}

\* C7: extract returns exactly the ten keys; without a regular cell it does
\* not raise, the six cell fields are 0, the other four are the universe's.
Thm_C7 ==
    op = "extract"
        => /\ raised = NoError
           /\ DOMAIN result = TenKeys
           /\ result.n_atoms = universes[1].n_atoms
           /\ result.n_frames = universes[1].n_frames
           /\ result.totaltime = universes[1].totaltime
           /\ result.dt = universes[1].dt
           /\ universes[1].dimensions = None
                => /\ result.Lx = 0 /\ result.Ly = 0 /\ result.Lz = 0
                   /\ result.alpha = 0 /\ result.beta = 0 /\ result.gamma = 0

Wit_C7 ==
    /\ op = "extract"
    /\ universes[1].dimensions = None
    /\ result.n_atoms = 3341
    /\ result.Lx = 0

\* C8: a labels list of another length than the universes makes summary raise
\* before extract is called and before anything is printed.
Thm_C8 ==
    (op = "summary" /\ ~labels.isNone /\ Len(labels.items) # Len(universes))
        => (raised = LabelCount /\ calls = <<>> /\ stdout = <<>>)

Wit_C8 ==
    /\ op = "summary"
    /\ ~labels.isNone
    /\ Len(universes) > Len(labels.items)
    /\ Len(labels.items) > 0
    /\ raised = LabelCount

\* C9: with labels left out summary does not raise and prints one table of
\* the ten data columns, one row per universe, without the label column.
Claim_C9 ==
    (op = "summary" /\ labels.isNone)
        => /\ raised = NoError
           /\ Len(stdout) = 1
           /\ stdout[1].field_names = data_column_names
           /\ Len(stdout[1].rows) = Len(universes)

Cells(u) ==
    LET box == IF u.dimensions = None THEN <<0, 0, 0, 0, 0, 0>>
               ELSE u.dimensions
    IN  <<u.n_atoms, box[1], box[2], box[3], box[4], box[5], box[6],
          u.n_frames, Divide(u.totaltime, 1000), u.dt>>

\* C10 as stated: for an equal-length labels list whose entries may be None,
\* summary prints one table, one row per universe in input order, each row
\* with as many cells as the header: [label if any] and the ten data cells.
Orig_C10 ==
    (op = "summary" /\ ~labels.isNone /\ Len(labels.items) = Len(universes))
        => /\ raised = NoError
           /\ Len(stdout) = 1
           /\ Len(stdout[1].rows) = Len(universes)
           /\ \A i \in 1..Len(universes) :
                /\ Len(stdout[1].rows[i]) = Len(stdout[1].field_names)
                /\ stdout[1].rows[i] =
                     (IF labels.items[i] # NoneLabel
                      THEN <<labels.items[i]>> ELSE <<>>) \o Cells(universes[i])

\* C10 amended: for an equal-length labels list without None entries,
\* summary prints one table, one row per universe in input order, each row
\* with as many cells as the header: the label and the ten data cells.
Thm_C10 ==
    (op = "summary" /\ ~labels.isNone /\ Len(labels.items) = Len(universes)
        /\ \A i \in 1..Len(labels.items) : labels.items[i] # NoneLabel)
        => /\ raised = NoError
           /\ Len(stdout) = 1
           /\ stdout[1].field_names = <<"simulation">> \o data_column_names
           /\ Len(stdout[1].rows) = Len(universes)
           /\ \A i \in 1..Len(universes) :
                /\ Len(stdout[1].rows[i]) = Len(stdout[1].field_names)
                /\ stdout[1].rows[i] =
                     <<labels.items[i]>> \o Cells(universes[i])

Wit_C10 ==
    /\ op = "summary"
    /\ ~labels.isNone
    /\ Len(universes) >= 2
    /\ universes[1] # universes[2]
    /\ raised = NoError
    /\ Len(stdout) = 1
    /\ Len(stdout[1].rows) = Len(universes)

====
